---- MODULE Spec2Model ----
(***************************************************************************)
(* Model of ContentPipelineFlow (src/main.py): a CrewAI Flow whose steps   *)
(* are wired by @start / @listen / @router decorators and share one        *)
(* ContentPipelineState.  The research agent, the generation LLM and the   *)
(* scoring crews are collaborators whose replies are drawn from small sets.*)
(***************************************************************************)
EXTENDS Integers, Sequences, FiniteSets, TLC

VARIABLES content_type, topic, max_length, research, score,
          blog_post, tweet, linkedin_post,
          trigger, error, log

state == <<content_type, topic, max_length, research, score,
           blog_post, tweet, linkedin_post>>
vars == <<content_type, topic, max_length, research, score,
          blog_post, tweet, linkedin_post, trigger, error, log>>

\* ---------------------------------------------------------------- bounds
\* generate/score cycles counted exactly; one more is "more than MaxCycles"
MaxCycles == 3
\* number of distinct texts a collaborator may put in a text field
NumTexts == 2
\* Score.score is an unvalidated int: values this far outside 0..10 occur
ScoreSlack == 1

\* ------------------------------------------------------------- constants
Threshold == 8
MaxScoreValue == 10
TweetMaxLength == 150
BlogMaxLength == 800
LinkedinMaxLength == 500

\* ------------------------------------------------------------ data model
\* Python's None
None == [absent |-> TRUE]

\* the texts collaborators write into str fields
TextValues == {<<"t1", "t2", "t3", "t4">>[i] : i \in 1..NumTexts}

ValidContentTypes == {"tweet", "blog", "linkedin"}
\* kickoff inputs: the three supported types, an unsupported one, the default
ContentTypeInputs == ValidContentTypes \cup {"invalid", ""}
TopicInputs == {"", "AI Dog Training"}

\* required fields of the pydantic models, in declaration order
BlogPostFields == <<"title", "subtitle", "sections">>
TweetFields == <<"content", "hashtags">>
LinkedInPostFields == <<"hook", "content", "call_to_action">>

Range(s) == {s[i] : i \in DOMAIN s}

\* mutant: a missing field is filled with the empty string, nothing raises
model_validate_lenient(fields, raw) ==
    [k \in Range(fields) |-> IF k \in DOMAIN raw THEN raw[k] ELSE ""]

\* X.model_validate_json(raw): a JSON object (a function from keys to
\* values) that has every required field becomes the model, extra keys
\* dropped; anything else raises ValidationError (None here, the caller
\* turns it into the raised error).
model_validate_json(fields, raw) ==
    IF Range(fields) \subseteq DOMAIN raw
    THEN [k \in Range(fields) |-> raw[k]]
    ELSE None

\* x.model_dump_json(): the fields in declaration order as key/value pairs
model_dump_json(fields, x) ==
    [i \in 1..Len(fields) |-> <<fields[i], x[fields[i]]>>]

\* what llm.call may return for a response_format with these fields: a
\* well-formed object per text, one with an extra key, one missing the last
\* required field (malformed)
LlmReplies(fields) ==
    {[k \in Range(fields) |-> t] : t \in TextValues}
    \cup {[k \in Range(fields) \cup {"note"} |-> "t1"]}
    \cup {[k \in Range(fields) \ {fields[Len(fields)]} |-> "t1"]}

ScoreValues == (0 - ScoreSlack)..(MaxScoreValue + ScoreSlack)
\* outcome of a scoring crew's kickoff: result.pydantic is a Score, or the
\* reply is malformed and the call fails (fatal parse error)
Malformed == [malformed |-> TRUE]
ScorerReplies ==
    {[score |-> s, reason |-> r] : s \in ScoreValues, r \in TextValues}
    \cup {Malformed}
\* researcher.kickoff(...): some text, possibly empty
ResearchReplies == {"", "t1"}

\* error messages
NoError == ""
InvalidContentType == "The content type is wrong."
EmptyTopic == "The topic can't be blank."
GenerationParseError == "ValidationError"
ScoreParseError == "ScoreParseError"
AttributeError == "AttributeError"

\* ------------------------------------------------------ instrumentation
\* log records what the steps did (calls, requests, replies); no step reads it
Methods == {"init_content_pipeline", "conduct_research",
            "conduct_research_router", "handle_make_blog",
            "handle_make_tweet", "handle_make_linkedin_post", "check_seo",
            "check_virality", "score_router", "finalize_content"}
Generators == {"handle_make_blog", "handle_make_tweet",
               "handle_make_linkedin_post"}
Scorers == {"check_seo", "check_virality"}

\* saturating counter: MaxCycles + 1 stands for "more than MaxCycles"
Inc(n) == IF n > MaxCycles THEN n ELSE n + 1

InitLog == [runs |-> [m \in Methods |-> 0],
            started |-> [m \in Methods |-> 0],
            gens |-> 0,            \* calls of llm.call
            scorings |-> 0,        \* kickoffs of a scoring crew
            request |-> None,      \* last request sent to the generation LLM
            result |-> None,       \* what llm.call returned last
            generated |-> None,    \* artifact parsed from its last reply
            scored |-> None,       \* content last handed to a scorer
            reply |-> None,        \* last Score a scorer returned
            passAt |-> 0,          \* first scoring call that returned >= 8
            fresh |-> FALSE,       \* score written since last generation
            route |-> "",          \* last router return value
            first_gen |-> "",      \* generation handler that ran first
            last |-> "",           \* step that started last
            after_final |-> FALSE] \* a step started after finalize_content

Begin(m) == [log EXCEPT !.started[m] = Inc(@),
                        !.last = m,
                        !.first_gen = IF @ = "" /\ m \in Generators THEN m ELSE @,
                        !.after_final = @ \/ log.runs["finalize_content"] > 0]
End(l, m) == [l EXCEPT !.runs[m] = Inc(@)]

\* ------------------------------------------------------------ scheduler
\* mutant: the generation handlers listen to their first route only
ListensOnce(m) ==
    CASE m = "init_content_pipeline" -> {"kickoff"}
      [] m = "conduct_research" -> {"init_content_pipeline"}
      [] m = "conduct_research_router" -> {"conduct_research"}
      [] m = "handle_make_blog" -> {"make_blog"}
      [] m = "handle_make_tweet" -> {"make_tweet"}
      [] m = "handle_make_linkedin_post" -> {"make_linkedin_post"}
      [] m = "check_seo" -> {"handle_make_blog"}
      [] m = "check_virality" ->
             {"handle_make_tweet", "handle_make_linkedin_post"}
      [] m = "score_router" -> {"check_seo", "check_virality"}
      [] m = "finalize_content" -> {"check_passed"}

\* mutant: a regeneration also sets off the research step
ListensResearchAgain(m) ==
    CASE m = "init_content_pipeline" -> {"kickoff"}
      [] m = "conduct_research" ->
             {"init_content_pipeline", "remake_blog", "remake_tweet",
              "remake_linkedin_post"}
      [] m = "conduct_research_router" -> {"conduct_research"}
      [] m = "handle_make_blog" -> {"make_blog", "remake_blog"}
      [] m = "handle_make_tweet" -> {"make_tweet", "remake_tweet"}
      [] m = "handle_make_linkedin_post" ->
             {"make_linkedin_post", "remake_linkedin_post"}
      [] m = "check_seo" -> {"handle_make_blog"}
      [] m = "check_virality" ->
             {"handle_make_tweet", "handle_make_linkedin_post"}
      [] m = "score_router" -> {"check_seo", "check_virality"}
      [] m = "finalize_content" -> {"check_passed"}

\* mutant: check_seo is put on the tweet handler, check_virality on the blog
\* handler
ListensScorersSwapped(m) ==
    CASE m = "init_content_pipeline" -> {"kickoff"}
      [] m = "conduct_research" -> {"init_content_pipeline"}
      [] m = "conduct_research_router" -> {"conduct_research"}
      [] m = "handle_make_blog" -> {"make_blog", "remake_blog"}
      [] m = "handle_make_tweet" -> {"make_tweet", "remake_tweet"}
      [] m = "handle_make_linkedin_post" ->
             {"make_linkedin_post", "remake_linkedin_post"}
      [] m = "check_seo" -> {"handle_make_tweet"}
      [] m = "check_virality" ->
             {"handle_make_blog", "handle_make_linkedin_post"}
      [] m = "score_router" -> {"check_seo", "check_virality"}
      [] m = "finalize_content" -> {"check_passed"}

\* mutant: score_router also listens to the blog handler
ListensRouterEarly(m) ==
    CASE m = "init_content_pipeline" -> {"kickoff"}
      [] m = "conduct_research" -> {"init_content_pipeline"}
      [] m = "conduct_research_router" -> {"conduct_research"}
      [] m = "handle_make_blog" -> {"make_blog", "remake_blog"}
      [] m = "handle_make_tweet" -> {"make_tweet", "remake_tweet"}
      [] m = "handle_make_linkedin_post" ->
             {"make_linkedin_post", "remake_linkedin_post"}
      [] m = "check_seo" -> {"handle_make_blog"}
      [] m = "check_virality" ->
             {"handle_make_tweet", "handle_make_linkedin_post"}
      [] m = "score_router" -> {"check_seo", "check_virality", "handle_make_blog"}
      [] m = "finalize_content" -> {"check_passed"}

\* @start(): runs at kickoff.  @listen(x)/@router(x): runs when method x
\* has completed or a router has returned the string x.
Listens(m) ==
    CASE m = "init_content_pipeline" -> {"kickoff"}
      [] m = "conduct_research" -> {"init_content_pipeline"}
      [] m = "conduct_research_router" -> {"conduct_research"}
      [] m = "handle_make_blog" -> {"make_blog", "remake_blog"}
      [] m = "handle_make_tweet" -> {"make_tweet", "remake_tweet"}
      [] m = "handle_make_linkedin_post" ->
             {"make_linkedin_post", "remake_linkedin_post"}
      [] m = "check_seo" -> {"handle_make_blog"}
      [] m = "check_virality" ->
             {"handle_make_tweet", "handle_make_linkedin_post"}
      [] m = "score_router" -> {"check_seo", "check_virality"}
      [] m = "finalize_content" -> {"check_passed"}

\* method m is due: the flow is alive and the last event is one m listens to
Triggered(m) == error = NoError /\ trigger \in Listens(m)

\* an exception raised inside a step ends the flow
Raise(m, e) ==
    /\ error' = e
    /\ trigger' = trigger
    /\ log' = Begin(m)
    /\ UNCHANGED state

Init ==
    /\ content_type \in ContentTypeInputs
    /\ topic \in TopicInputs
    /\ max_length = 0
    /\ research = ""
    /\ score = None
    /\ blog_post = None
    /\ tweet = None
    /\ linkedin_post = None
    /\ trigger = "kickoff"
    /\ error = NoError
    /\ log = InitLog

\* --------------------------------------------------------------- steps
\* mutant: the tweet branch is missing
TypeRouteNoTweet(ct) ==
    IF ct = "blog" THEN "make_blog"
    ELSE "make_linkedin_post"

\* return value of conduct_research_router
TypeRoute(ct) ==
    IF ct = "blog" THEN "make_blog"
    ELSE IF ct = "tweet" THEN "make_tweet"
    ELSE "make_linkedin_post"

\* mutant: the boundary score 8 does not pass
ScoreRouteStrict(ct, s) ==
    IF s > Threshold THEN "check_passed"
    ELSE IF ct = "blog" THEN "remake_blog"
    ELSE IF ct = "linkedin" THEN "remake_linkedin_post"
    ELSE "remake_tweet"

\* mutant: the threshold is off by one, 7 passes
ScoreRouteLow(ct, s) ==
    IF s >= Threshold - 1 THEN "check_passed"
    ELSE IF ct = "blog" THEN "remake_blog"
    ELSE IF ct = "linkedin" THEN "remake_linkedin_post"
    ELSE "remake_tweet"

\* mutant: the linkedin branch is missing, linkedin falls to the else
ScoreRouteNoLinkedin(ct, s) ==
    IF s >= Threshold THEN "check_passed"
    ELSE IF ct = "blog" THEN "remake_blog"
    ELSE "remake_tweet"

\* mutant: the comparison is inverted
ScoreRouteInverted(ct, s) ==
    IF s < Threshold THEN "check_passed"
    ELSE IF ct = "blog" THEN "remake_blog"
    ELSE IF ct = "linkedin" THEN "remake_linkedin_post"
    ELSE "remake_tweet"

\* return value of score_router
ScoreRoute(ct, s) ==
    IF s >= Threshold THEN "check_passed"
    ELSE IF ct = "blog" THEN "remake_blog"
    ELSE IF ct = "linkedin" THEN "remake_linkedin_post"
    ELSE "remake_tweet"

\* mutant: the tweet and linkedin lengths are swapped
MaxLengthOfSwapped(ct) ==
    IF ct = "tweet" THEN LinkedinMaxLength
    ELSE IF ct = "blog" THEN BlogMaxLength
    ELSE IF ct = "linkedin" THEN TweetMaxLength
    ELSE max_length

\* mutant: the blog branch is missing
MaxLengthOfNoBlog(ct) ==
    IF ct = "tweet" THEN TweetMaxLength
    ELSE IF ct = "linkedin" THEN LinkedinMaxLength
    ELSE max_length

MaxLengthOf(ct) ==
    IF ct = "tweet" THEN TweetMaxLength
    ELSE IF ct = "blog" THEN BlogMaxLength
    ELSE IF ct = "linkedin" THEN LinkedinMaxLength
    ELSE max_length

\* mutant: the topic is validated before the content type
init_topic_first ==
    /\ Triggered("init_content_pipeline")
    /\ IF topic = ""
       THEN Raise("init_content_pipeline", EmptyTopic)
       ELSE IF content_type \notin {"tweet", "blog", "linkedin"}
       THEN Raise("init_content_pipeline", InvalidContentType)
       ELSE /\ max_length' = MaxLengthOf(content_type)
            /\ trigger' = "init_content_pipeline"
            /\ log' = End(Begin("init_content_pipeline"), "init_content_pipeline")
            /\ UNCHANGED <<content_type, topic, research, score, blog_post,
                           tweet, linkedin_post, error>>

\* mutant: max_length is set before the topic is validated
init_length_first ==
    /\ Triggered("init_content_pipeline")
    /\ IF content_type \notin {"tweet", "blog", "linkedin"}
       THEN Raise("init_content_pipeline", InvalidContentType)
       ELSE IF topic = ""
       THEN /\ max_length' = MaxLengthOf(content_type)
            /\ error' = EmptyTopic
            /\ log' = Begin("init_content_pipeline")
            /\ UNCHANGED <<content_type, topic, research, score, blog_post,
                           tweet, linkedin_post, trigger>>
       ELSE /\ max_length' = MaxLengthOf(content_type)
            /\ trigger' = "init_content_pipeline"
            /\ log' = End(Begin("init_content_pipeline"), "init_content_pipeline")
            /\ UNCHANGED <<content_type, topic, research, score, blog_post,
                           tweet, linkedin_post, error>>

\* mutant: the content type is not validated
init_no_type_check ==
    /\ Triggered("init_content_pipeline")
    /\ IF topic = ""
       THEN Raise("init_content_pipeline", EmptyTopic)
       ELSE /\ max_length' = MaxLengthOf(content_type)
            /\ trigger' = "init_content_pipeline"
            /\ log' = End(Begin("init_content_pipeline"), "init_content_pipeline")
            /\ UNCHANGED <<content_type, topic, research, score, blog_post,
                           tweet, linkedin_post, error>>

init_content_pipeline ==
    /\ Triggered("init_content_pipeline")
    /\ IF content_type \notin {"tweet", "blog", "linkedin"}
       THEN Raise("init_content_pipeline", InvalidContentType)
       ELSE IF topic = ""
       THEN Raise("init_content_pipeline", EmptyTopic)
       ELSE /\ max_length' = MaxLengthOf(content_type)
            /\ trigger' = "init_content_pipeline"
            /\ log' = End(Begin("init_content_pipeline"), "init_content_pipeline")
            /\ UNCHANGED <<content_type, topic, research, score, blog_post,
                           tweet, linkedin_post, error>>

conduct_research ==
    /\ Triggered("conduct_research")
    /\ \E r \in ResearchReplies :
         /\ research' = r
         /\ trigger' = "conduct_research"
         /\ log' = End(Begin("conduct_research"), "conduct_research")
         /\ UNCHANGED <<content_type, topic, max_length, score, blog_post,
                        tweet, linkedin_post, error>>

conduct_research_router ==
    /\ Triggered("conduct_research_router")
    /\ trigger' = TypeRoute(content_type)
    /\ log' = [End(Begin("conduct_research_router"), "conduct_research_router")
                  EXCEPT !.route = TypeRoute(content_type)]
    /\ UNCHANGED <<state, error>>

\* mutant: the revise branch is missing, every request is a create request
GenRequestCreateOnly(what, fields, artifact) ==
    [kind |-> "create", what |-> what, topic |-> topic, research |-> research]

\* mutant: the revise prompt quotes the research where the reason belongs
GenRequestNoReason(what, fields, artifact) ==
    IF artifact = None
    THEN [kind |-> "create", what |-> what, topic |-> topic,
          research |-> research]
    ELSE [kind |-> "revise", what |-> what, topic |-> topic,
          reason |-> research,
          artifact |-> model_dump_json(fields, artifact),
          research |-> research]

\* the prompt handed to llm.call, by what it is built from
GenRequest(what, fields, artifact) ==
    IF artifact = None
    THEN [kind |-> "create", what |-> what, topic |-> topic,
          research |-> research]
    ELSE [kind |-> "revise", what |-> what, topic |-> topic,
          reason |-> score.reason,
          artifact |-> model_dump_json(fields, artifact),
          research |-> research]

\* log of one llm.call and of the parse of its result
Generated(m, req, result, parsed) ==
    [Begin(m) EXCEPT !.gens = Inc(@),
                     !.request = req,
                     !.result = result,
                     !.generated = IF parsed = None THEN @ ELSE parsed,
                     !.fresh = FALSE]

handle_make_blog ==
    /\ Triggered("handle_make_blog")
    /\ IF blog_post # None /\ score = None
       THEN Raise("handle_make_blog", AttributeError)
       ELSE \E result \in LlmReplies(BlogPostFields) :
              LET req == GenRequest("blog post", BlogPostFields, blog_post)
                  parsed == model_validate_json(BlogPostFields, result)
              IN IF parsed = None
                 THEN /\ error' = GenerationParseError
                      /\ log' = Generated("handle_make_blog", req, result, parsed)
                      /\ UNCHANGED <<state, trigger>>
                 ELSE /\ blog_post' = parsed
                      /\ trigger' = "handle_make_blog"
                      /\ log' = End(Generated("handle_make_blog", req, result, parsed),
                                    "handle_make_blog")
                      /\ UNCHANGED <<content_type, topic, max_length, research,
                                     score, tweet, linkedin_post, error>>

handle_make_tweet ==
    /\ Triggered("handle_make_tweet")
    /\ IF tweet # None /\ score = None
       THEN Raise("handle_make_tweet", AttributeError)
       ELSE \E result \in LlmReplies(TweetFields) :
              LET req == GenRequest("tweet", TweetFields, tweet)
                  parsed == model_validate_json(TweetFields, result)
              IN IF parsed = None
                 THEN /\ error' = GenerationParseError
                      /\ log' = Generated("handle_make_tweet", req, result, parsed)
                      /\ UNCHANGED <<state, trigger>>
                 ELSE /\ tweet' = parsed
                      /\ trigger' = "handle_make_tweet"
                      /\ log' = End(Generated("handle_make_tweet", req, result, parsed),
                                    "handle_make_tweet")
                      /\ UNCHANGED <<content_type, topic, max_length, research,
                                     score, blog_post, linkedin_post, error>>

handle_make_linkedin_post ==
    /\ Triggered("handle_make_linkedin_post")
    /\ IF linkedin_post # None /\ score = None
       THEN Raise("handle_make_linkedin_post", AttributeError)
       ELSE \E result \in LlmReplies(LinkedInPostFields) :
              LET req == GenRequest("linkedin post", LinkedInPostFields,
                                    linkedin_post)
                  parsed == model_validate_json(LinkedInPostFields, result)
              IN IF parsed = None
                 THEN /\ error' = GenerationParseError
                      /\ log' = Generated("handle_make_linkedin_post", req, result,
                                          parsed)
                      /\ UNCHANGED <<state, trigger>>
                 ELSE /\ linkedin_post' = parsed
                      /\ trigger' = "handle_make_linkedin_post"
                      /\ log' = End(Generated("handle_make_linkedin_post", req, result,
                                              parsed),
                                    "handle_make_linkedin_post")
                      /\ UNCHANGED <<content_type, topic, max_length, research,
                                     score, blog_post, tweet, error>>

\* log of one scoring crew kickoff on this content
Scored(m, content, reply) ==
    [Begin(m) EXCEPT !.scorings = Inc(@),
                     !.scored = content,
                     !.reply = IF reply = Malformed THEN @ ELSE reply,
                     !.fresh = IF reply = Malformed THEN @ ELSE TRUE,
                     !.passAt = IF @ = 0 /\ reply # Malformed
                                        /\ reply.score >= 8
                                THEN Inc(log.scorings) ELSE @]

check_seo ==
    /\ Triggered("check_seo")
    /\ IF blog_post = None
       THEN Raise("check_seo", AttributeError)
       ELSE \E reply \in ScorerReplies :
              LET content == model_dump_json(BlogPostFields, blog_post)
              IN IF reply = Malformed
                 THEN /\ error' = ScoreParseError
                      /\ log' = Scored("check_seo", content, reply)
                      /\ UNCHANGED <<state, trigger>>
                 ELSE /\ score' = reply
                      /\ trigger' = "check_seo"
                      /\ log' = End(Scored("check_seo", content, reply),
                                    "check_seo")
                      /\ UNCHANGED <<content_type, topic, max_length, research,
                                     blog_post, tweet, linkedin_post, error>>

\* mutant: the condition is inverted
ViralityContentSwapped == IF content_type = "tweet" THEN linkedin_post ELSE tweet

\* the "content" input of the virality crew: the object, not its JSON
ViralityContent == IF content_type = "tweet" THEN tweet ELSE linkedin_post

check_virality ==
    /\ Triggered("check_virality")
    /\ \E reply \in ScorerReplies :
         LET content == ViralityContent
         IN IF reply = Malformed
            THEN /\ error' = ScoreParseError
                 /\ log' = Scored("check_virality", content, reply)
                 /\ UNCHANGED <<state, trigger>>
            ELSE /\ score' = reply
                 /\ trigger' = "check_virality"
                 /\ log' = End(Scored("check_virality", content, reply),
                               "check_virality")
                 /\ UNCHANGED <<content_type, topic, max_length, research,
                                blog_post, tweet, linkedin_post, error>>

score_router ==
    /\ Triggered("score_router")
    /\ IF score = None
       THEN Raise("score_router", AttributeError)
       ELSE /\ trigger' = ScoreRoute(content_type, score.score)
            /\ log' = [End(Begin("score_router"), "score_router")
                          EXCEPT !.route = ScoreRoute(content_type, score.score)]
            /\ UNCHANGED <<state, error>>

finalize_content ==
    /\ Triggered("finalize_content")
    /\ trigger' = "finalize_content"
    /\ log' = End(Begin("finalize_content"), "finalize_content")
    /\ UNCHANGED <<state, error>>

Next ==
    \/ init_content_pipeline
    \/ conduct_research
    \/ conduct_research_router
    \/ handle_make_blog
    \/ handle_make_tweet
    \/ handle_make_linkedin_post
    \/ check_seo
    \/ check_virality
    \/ score_router
    \/ finalize_content

Spec == Init /\ [][Next]_vars
\* the scheduler runs every step that is due
LiveSpec == Spec /\ WF_vars(Next)

\* ============================================================ properties
\* the artifact field that belongs to a content type
Artifact(ct) ==
    CASE ct = "blog" -> blog_post
      [] ct = "tweet" -> tweet
      [] ct = "linkedin" -> linkedin_post
      [] OTHER -> None
\* the run has finished successfully: the terminal step has completed
Finished == error = NoError /\ trigger = "finalize_content"
MakeRoutes == {"make_blog", "make_tweet", "make_linkedin_post"}
RemakeRoutes == {"remake_blog", "remake_tweet", "remake_linkedin_post"}
\* score_router has just returned
ScoreRouted == trigger \in RemakeRoutes \cup {"check_passed"}
Ran(m) == log.started[m] > 0

\* C1: score_router returns "check_passed" whenever the stored score is
\* >= 8 (8 included); for every score from 0 to 7 it returns the regenerate
\* route of the run's content_type (blog -> remake_blog, tweet ->
\* remake_tweet, linkedin -> remake_linkedin_post); every generation of a
\* run is done by the one handler of that type, the one that ran first.
C1_ScoreRouter ==
    /\ ScoreRouted =>
          /\ score.score >= 8 => trigger = "check_passed"
          /\ score.score \in 0..7 =>
                trigger = (CASE content_type = "blog" -> "remake_blog"
                             [] content_type = "tweet" -> "remake_tweet"
                             [] content_type = "linkedin" -> "remake_linkedin_post"
                             [] OTHER -> "none")
    /\ \A m \in Generators :
          Ran(m) => /\ m = log.first_gen
                    /\ m = (CASE content_type = "blog" -> "handle_make_blog"
                               [] content_type = "tweet" -> "handle_make_tweet"
                               [] content_type = "linkedin" -> "handle_make_linkedin_post"
                               [] OTHER -> "none")
C1_Witness ==
    /\ content_type = "linkedin" /\ log.started["handle_make_linkedin_post"] = 2
    /\ trigger = "handle_make_linkedin_post" /\ log.route = "remake_linkedin_post"
    /\ score.score = 7

\* C2: finalize_content runs only after score_router returned
\* "check_passed", at most once per run, and no step starts after it; when
\* the run has finished successfully the artifact of the run's content_type
\* is present and the stored score is >= 8.
C2_Finalize ==
    /\ log.started["finalize_content"] <= 1
    /\ Ran("finalize_content") =>
          Ran("score_router") /\ log.route = "check_passed"
    /\ ~log.after_final
    /\ Finished => /\ Artifact(content_type) # None
                   /\ score # None
                   /\ score.score >= 8
C2_Witness ==
    /\ Finished /\ content_type = "blog" /\ blog_post # None
    /\ score.score = 8 /\ log.gens = 2

\* C4: for a valid content_type and a non-empty topic init sets max_length
\* to tweet=150, blog=800, linkedin=500; for a content_type outside
\* {tweet, blog, linkedin} init fails with the invalid-content-type error.
C4_InitMaxLength ==
    Ran("init_content_pipeline") =>
      /\ (content_type \in {"tweet", "blog", "linkedin"} /\ topic # "") =>
            /\ log.runs["init_content_pipeline"] = 1
            /\ max_length = (CASE content_type = "tweet" -> 150
                                [] content_type = "blog" -> 800
                                [] content_type = "linkedin" -> 500)
      /\ content_type \notin {"tweet", "blog", "linkedin"} =>
            /\ error = InvalidContentType
            /\ log.runs["init_content_pipeline"] = 0
C4_Witness ==
    /\ trigger = "init_content_pipeline" /\ content_type = "linkedin"
    /\ max_length = 500

\* C5 as stated: init fails with EmptyTopic if and only if topic is empty,
\* whether or not content_type is valid.
C5_Original ==
    Ran("init_content_pipeline") => (error = EmptyTopic <=> topic = "")
\* C5 amended: init fails with EmptyTopic if and only if topic is empty and
\* content_type is valid; for an empty topic with an invalid content_type
\* the error is the invalid-content-type one; for a non-empty topic
\* EmptyTopic is never reported.
C5_EmptyTopic ==
    Ran("init_content_pipeline") =>
      /\ error = EmptyTopic <=>
            (topic = "" /\ content_type \in {"tweet", "blog", "linkedin"})
      /\ (topic = "" /\ content_type \notin {"tweet", "blog", "linkedin"}) =>
            error = InvalidContentType
C5_Witness ==
    /\ Ran("init_content_pipeline") /\ topic = ""
    /\ content_type = "tweet" /\ error = EmptyTopic

\* C6: the type router is total and deterministic: for each valid content
\* type it returns the matching generation route (blog -> make_blog,
\* tweet -> make_tweet, linkedin -> make_linkedin_post), the same route
\* for the same content_type in every run, and whenever it is due it
\* returns one.
C6_TypeRouter ==
    /\ Triggered("conduct_research_router") => ENABLED conduct_research_router
    /\ (Ran("conduct_research_router") /\ content_type \in ValidContentTypes) =>
          /\ log.runs["conduct_research_router"] = 1
          /\ ~Ran("score_router") =>
                log.route = (CASE content_type = "blog" -> "make_blog"
                               [] content_type = "tweet" -> "make_tweet"
                               [] content_type = "linkedin" -> "make_linkedin_post")
          /\ trigger \in MakeRoutes => trigger = log.route
C6_Witness ==
    trigger = "make_tweet" /\ content_type = "tweet"

\* C3: there is no cap on regeneration cycles.  The run reaches
\* finalize_content only if some scoring pass returned a score >= 8, and
\* once one did it does reach it; while every scoring pass returns a score
\* below 8 and no collaborator fails, the generate/score loop goes round
\* again and again and the terminal step is never reached.  Only the
\* generation, scoring and score-routing steps ever run more than once.
C3_NoCap ==
    /\ [](Ran("finalize_content") => log.passAt > 0)
    /\ []((trigger \in RemakeRoutes /\ error = NoError) =>
            \/ ENABLED handle_make_blog
            \/ ENABLED handle_make_tweet
            \/ ENABLED handle_make_linkedin_post)
    /\ (log.passAt > 0 /\ error = NoError) ~> Finished
    /\ ([](error = NoError /\ log.passAt = 0)
          => []<>(trigger \in RemakeRoutes /\ log.gens > MaxCycles))
    /\ [](\A m \in Methods \ (Generators \cup Scorers \cup {"score_router"}) :
            log.started[m] <= 1)
C3_Witness ==
    /\ log.gens > MaxCycles /\ log.scorings > MaxCycles /\ log.passAt = 0
    /\ trigger = "remake_tweet" /\ error = NoError

\* the generation in this step is a regeneration: an artifact had already
\* been generated and scored
Regeneration == log.fresh /\ ~log'.fresh
\* the JSON of an artifact, whatever its type
DumpOf(x) ==
    IF DOMAIN x = Range(BlogPostFields) THEN model_dump_json(BlogPostFields, x)
    ELSE IF DOMAIN x = Range(TweetFields) THEN model_dump_json(TweetFields, x)
    ELSE model_dump_json(LinkedInPostFields, x)

\* C7: when the k-th scoring call is the first to return a score >= 8, the
\* finished run has made exactly k generation calls and k scoring calls and
\* its artifact is the one generated last (the k-th); the request of every
\* generation after the first carries the artifact generated in the cycle
\* before and the reason of the score given in the cycle before.
C7_Cycles ==
    /\ [](Finished => /\ log.passAt > 0
                      /\ log.gens = log.passAt
                      /\ log.scorings = log.passAt
                      /\ Artifact(content_type) = log.generated)
    /\ [][Regeneration =>
            /\ log'.request.kind = "revise"
            /\ log'.request.artifact = DumpOf(log.generated)
            /\ log'.request.reason = log.reply.reason]_vars
C7_Witness ==
    /\ Finished /\ content_type = "tweet" /\ log.passAt = 2
    /\ log.gens = 2 /\ log.scorings = 2
    /\ log.request.kind = "revise" /\ log.request.reason = "t2"
    /\ tweet = [content |-> "t2", hashtags |-> "t2"]

\* C8: in every reachable state at most one of blog_post, tweet and
\* linkedin_post is populated, and a populated one is the field of
\* content_type.
C8_OneArtifact ==
    /\ Cardinality({f \in {"blog", "tweet", "linkedin"} : Artifact(f) # None}) <= 1
    /\ blog_post # None => content_type = "blog"
    /\ tweet # None => content_type = "tweet"
    /\ linkedin_post # None => content_type = "linkedin"
C8_Witness ==
    /\ linkedin_post # None /\ log.gens = 3 /\ trigger = "check_virality"
    /\ blog_post = None /\ tweet = None

\* C9: whenever score_router is about to read state.score, that score was
\* written by a scoring step that ran after the most recent generation and
\* was given the artifact now stored in state, which is the one generated
\* last.
C9_FreshScore ==
    Triggered("score_router") =>
      /\ log.fresh
      /\ score = log.reply
      /\ Artifact(content_type) = log.generated
      /\ log.scored = (IF content_type = "blog"
                       THEN model_dump_json(BlogPostFields, log.generated)
                       ELSE log.generated)
C9_Witness ==
    /\ Triggered("score_router") /\ content_type = "linkedin"
    /\ log.scorings = 2 /\ log.request.artifact # DumpOf(linkedin_post)

\* C10: the research step runs at most once per run, it is the step that
\* follows a successful init and it has run exactly once before any
\* generation, however many regenerations follow; state.research is
\* written by that step alone.
C10_ResearchOnce ==
    /\ [](log.started["conduct_research"] <= 1)
    /\ [](trigger = "init_content_pipeline" /\ error = NoError =>
            /\ ENABLED conduct_research
            /\ \A m \in Methods \ {"conduct_research"} : ~Triggered(m))
    /\ [](Ran("conduct_research") => log.runs["init_content_pipeline"] = 1)
    /\ [](\A m \in Generators :
            Ran(m) => log.runs["conduct_research"] = 1)
    /\ [][research' # research =>
            log'.runs["conduct_research"] = log.runs["conduct_research"] + 1]_vars
    /\ [][log.runs["conduct_research"] = 1 => research' = research]_vars
C10_Witness ==
    /\ log.runs["conduct_research"] = 1 /\ research = "t1"
    /\ log.gens > MaxCycles

\* what a generation step of handler m must do, given the artifact field of
\* m before (a) and after (a2) the step
GenStepAsClaimed(m, what, fields, a, a2) ==
    Triggered(m) =>
      /\ a = None =>
           log'.request = [kind |-> "create", what |-> what, topic |-> topic,
                           research |-> research]
      /\ a # None =>
           /\ log'.request.kind = "revise"
           /\ log'.request.artifact = model_dump_json(fields, a)
           /\ log'.request.reason = score.reason
           /\ log'.request.topic = topic
      /\ error' = NoError =>
           /\ a2 = log'.generated
           /\ DOMAIN a2 = Range(fields)
           /\ \A k \in DOMAIN a2 : a2[k] = a2[fields[1]]

\* C11: a generation handler branches only on whether the artifact of its
\* type is present: absent, the request is a create request built from
\* topic and research alone; present, it is a revise request carrying the
\* previous artifact's JSON and the previous score's reason; either way the
\* artifact is replaced by the newly parsed one as a whole.  The first
\* generation and every regeneration are done by the same handler.
C11_Generation ==
    /\ [][/\ GenStepAsClaimed("handle_make_blog", "blog post",
                              BlogPostFields, blog_post, blog_post')
          /\ GenStepAsClaimed("handle_make_tweet", "tweet",
                              TweetFields, tweet, tweet')
          /\ GenStepAsClaimed("handle_make_linkedin_post", "linkedin post",
                              LinkedInPostFields, linkedin_post,
                              linkedin_post')]_vars
    /\ [](\A m \in Generators :
            /\ Ran(m) => m = log.first_gen
            /\ (Triggered(m) /\ trigger \in RemakeRoutes) => m = log.first_gen)
C11_Witness ==
    /\ trigger = "handle_make_blog" /\ log.gens = 2
    /\ log.request.kind = "revise"
    /\ log.request.artifact # model_dump_json(BlogPostFields, blog_post)
    /\ blog_post = log.generated

\* C12: the scoring policy follows content_type: in a blog run every
\* scoring pass is done by check_seo and none by check_virality; in a tweet
\* or linkedin run every scoring pass is done by check_virality and none by
\* check_seo; check_virality scores the tweet when content_type is "tweet"
\* and the LinkedIn post otherwise.
C12_ScoringPolicy ==
    /\ content_type = "blog" =>
         /\ ~Ran("check_virality")
         /\ ~Triggered("check_virality")
         /\ log.started["check_seo"] = log.scorings
         /\ log.fresh =>
              log.scored = model_dump_json(BlogPostFields, blog_post)
    /\ content_type \in {"tweet", "linkedin"} =>
         /\ ~Ran("check_seo")
         /\ ~Triggered("check_seo")
         /\ log.started["check_virality"] = log.scorings
    /\ (Ran("check_virality") /\ content_type = "tweet") =>
         /\ tweet # None
         /\ log.fresh => log.scored = tweet
    /\ (Ran("check_virality") /\ content_type # "tweet") =>
         /\ linkedin_post # None
         /\ log.fresh => log.scored = linkedin_post
    /\ (log.gens > 0 /\ error = NoError) =>
         \/ Triggered("check_seo") \/ Triggered("check_virality")
         \/ log.scorings = log.gens
C12_Witness ==
    /\ content_type = "linkedin" /\ log.started["check_virality"] = 2
    /\ log.scored = linkedin_post /\ linkedin_post # None
    /\ trigger = "check_virality"

\* the steps that may start right after step a has started: the order
\* init, research, type route, generate, score, score route, then
\* regenerate or finalize
FollowsInOrder(a, b) ==
    \/ a = "" /\ b = "init_content_pipeline"
    \/ a = "init_content_pipeline" /\ b = "conduct_research"
    \/ a = "conduct_research" /\ b = "conduct_research_router"
    \/ a = "conduct_research_router" /\ b \in Generators
    \/ a = "handle_make_blog" /\ b = "check_seo"
    \/ a \in {"handle_make_tweet", "handle_make_linkedin_post"}
         /\ b = "check_virality"
    \/ a \in Scorers /\ b = "score_router"
    \/ a = "score_router" /\ b \in Generators \cup {"finalize_content"}

\* C13: the steps of a run execute one at a time in the order init,
\* research, type route, generate, score, score route, then any number of
\* (regenerate, score, score route), then finalize: never are two steps due
\* at once, a step starts only after the step before it has completed
\* without error, every generation is followed by exactly one scoring pass
\* before the next routing decision, and no two generations occur without a
\* scoring pass between them.
C13_Sequential ==
    /\ [](Cardinality({m \in Methods : Triggered(m)}) <= 1)
    /\ [][/\ FollowsInOrder(log.last, log'.last)
          /\ error = NoError
          /\ log.last # "" => log.runs[log.last] > 0
          /\ log.last # "" => trigger \in {log.last, log.route}]_vars
    /\ [](Triggered("score_router") =>
            log.scorings = log.gens /\ log.fresh)
    /\ [](\A m \in Generators :
            Triggered(m) => log.scorings = log.gens)
    /\ [](Triggered("finalize_content") => log.last = "score_router")
C13_Witness ==
    /\ trigger = "finalize_content" /\ log.last = "finalize_content"
    /\ log.gens = 3 /\ log.scorings = 3 /\ log.runs["score_router"] = 3
    /\ content_type = "tweet"

\* init has failed on its input
ConfigError == error \in {InvalidContentType, EmptyTopic}

\* C14: when init fails (invalid content_type or empty topic) the run stops
\* there: no research, generation or scoring collaborator is called, no
\* other step starts, nothing more can run, and max_length, research, score
\* and the three artifacts keep their initial values.
C14_ConfigErrorFatal ==
    /\ ConfigError =>
         /\ log.started["init_content_pipeline"] = 1
         /\ log.runs["init_content_pipeline"] = 0
         /\ \A m \in Methods \ {"init_content_pipeline"} : log.started[m] = 0
         /\ log.gens = 0 /\ log.scorings = 0
         /\ log.request = None /\ log.scored = None
         /\ max_length = 0 /\ research = "" /\ score = None
         /\ blog_post = None /\ tweet = None /\ linkedin_post = None
         /\ ~ENABLED Next
    /\ (Ran("init_content_pipeline")
          /\ (content_type \notin ValidContentTypes \/ topic = "")) =>
         ConfigError
C14_Witness ==
    /\ error = EmptyTopic /\ content_type = "blog" /\ topic = ""
    /\ max_length = 0 /\ trigger = "kickoff"

\* the required fields of the artifact a generation handler parses
FieldsOfHandler(m) ==
    CASE m = "handle_make_blog" -> BlogPostFields
      [] m = "handle_make_tweet" -> TweetFields
      [] m = "handle_make_linkedin_post" -> LinkedInPostFields
\* the last reply of the generation collaborator lacks a required field
MalformedReply ==
    /\ log.last \in Generators
    /\ log.result # None
    /\ \E k \in Range(FieldsOfHandler(log.last)) : k \notin DOMAIN log.result

\* C15: a malformed structured reply of the generation collaborator is
\* fatal: the step that received it ends in an error, nothing runs after it
\* (no retry, no scoring, no routing), the stored artifact and score are
\* what they were before the failed generation, and a run that has an error
\* never reaches finalize_content.
C15_ParseErrorFatal ==
    /\ [](MalformedReply =>
            /\ error = GenerationParseError
            /\ trigger \in MakeRoutes \cup RemakeRoutes
            /\ ~log.fresh)
    /\ [](error = GenerationParseError => MalformedReply)
    /\ [](error # NoError =>
            /\ ~ENABLED Next
            /\ ~Ran("finalize_content")
            /\ ~Finished)
    /\ [][error' = GenerationParseError =>
            /\ blog_post' = blog_post
            /\ tweet' = tweet
            /\ linkedin_post' = linkedin_post
            /\ score' = score
            /\ log'.generated = log.generated
            /\ log'.scorings = log.scorings]_vars
C15_Witness ==
    /\ error = GenerationParseError /\ MalformedReply
    /\ content_type = "tweet" /\ tweet # None /\ tweet = log.generated
    /\ log.started["handle_make_tweet"] = 2 /\ log.runs["handle_make_tweet"] = 1
    /\ log.request.artifact = model_dump_json(TweetFields, tweet)

CycleCap == 3
QualityThresholdNotReached == "QualityThresholdNotReached"

\* C17: when no scoring pass returns a score >= 8, the run fails with
\* QualityThresholdNotReached after exactly 3 regeneration cycles: once the
\* first generation and 3 regenerations have been scored and routed, the
\* run has that error and no further regeneration is routed.
C17_CapOfThree ==
    (log.passAt = 0 /\ log.scorings > CycleCap /\ log.last = "score_router") =>
      /\ error = QualityThresholdNotReached
      /\ ~ENABLED Next

\* C18: the two routers' else branches are reached with the one type they
\* stand for: the type router returns make_linkedin_post only when
\* content_type is "linkedin", the score router returns remake_tweet only
\* when content_type is "tweet", because no router runs unless init has
\* accepted content_type; so the first-generation route and every
\* regenerate route of a run lead to the same generation handler.
C18_FallbacksBenign ==
    /\ (Ran("conduct_research_router") \/ Ran("score_router")) =>
         content_type \in {"tweet", "blog", "linkedin"}
    /\ (trigger = "make_linkedin_post" \/ Ran("handle_make_linkedin_post")) =>
         content_type = "linkedin"
    /\ (trigger = "remake_tweet" \/ log.route = "remake_tweet") =>
         content_type = "tweet"
    /\ \A m \in Generators :
         /\ Ran(m) => m = log.first_gen
         /\ (Triggered(m) /\ log.first_gen # "") => m = log.first_gen
C18_Witness ==
    /\ content_type = "linkedin" /\ log.first_gen = "handle_make_linkedin_post"
    /\ trigger = "remake_linkedin_post" /\ Triggered("handle_make_linkedin_post")
    /\ log.gens = 2

\* the artifact field a generation handler reads and writes
HandlerArtifact(m) ==
    CASE m = "handle_make_blog" -> blog_post
      [] m = "handle_make_tweet" -> tweet
      [] m = "handle_make_linkedin_post" -> linkedin_post

\* C19: whenever a generation handler is about to take its revise branch
\* (it is due and the artifact of its type is present), state.score is not
\* None, its value is below 8 and it is the score given to the very
\* artifact being revised; reading state.score.reason never fails.
C19_ReviseHasScore ==
    /\ \A m \in Generators :
         (Triggered(m) /\ HandlerArtifact(m) # None) =>
           /\ score # None
           /\ score.score < 8
           /\ score = log.reply
           /\ log.fresh
           /\ HandlerArtifact(m) = log.generated
           /\ log.scored = (IF m = "handle_make_blog"
                            THEN model_dump_json(BlogPostFields, blog_post)
                            ELSE HandlerArtifact(m))
    /\ error = AttributeError => log.last \notin Generators
C19_Witness ==
    /\ Triggered("handle_make_tweet") /\ tweet # None
    /\ score # None /\ score.score = 7 /\ log.gens = 2

\* C20: a scoring step never starts on an absent artifact and score_router
\* never starts on an absent score: when check_seo is due blog_post is
\* present; when check_virality is due the field it selects (tweet if
\* content_type is "tweet", otherwise linkedin_post) is present, and what it
\* hands to the crew is that field; when score_router is due state.score is
\* not None.
C20_NothingAbsent ==
    /\ Triggered("check_seo") => blog_post # None
    /\ Triggered("check_virality") =>
         (IF content_type = "tweet" THEN tweet ELSE linkedin_post) # None
    /\ (Ran("check_seo") \/ Ran("check_virality")) => log.scored # None
    /\ Triggered("score_router") => score # None
    /\ error = AttributeError =>
         log.last \notin Scorers \cup {"score_router"}
C20_Witness ==
    /\ Triggered("score_router") /\ score # None /\ content_type = "linkedin"
    /\ log.scored = linkedin_post /\ linkedin_post # None /\ tweet = None
    /\ log.scorings = 2
====
